---- MODULE Spec2Model ----
(***************************************************************************)
(* Entity-resolution pipeline of the Question-Answer View Finder:          *)
(* text normalisation (utils/text_utils.py), the Wikipedia resolver with   *)
(* its disambiguation step (utils/wiki_utils.py, utils/llm_utils.py) and   *)
(* the per-pair analysis loop (app.py).                                    *)
(*                                                                         *)
(* A Python str is a sequence of Unicode code points (Latin-1 letters,     *)
(* digits, blank, quotes).  Python None is the empty tuple and a present   *)
(* optional value x is <<x>>.  The st.cache_data / st.cache_resource       *)
(* decorators (memoisation by the host runtime) are not modelled: every    *)
(* call computes its result.                                               *)
(***************************************************************************)
EXTENDS Integers, Sequences, FiniteSets, TLC

None == << >>
Some(x) == << x >>

----------------------------------------------------------------------------
(* Bounds of the model *)

\* number of structured pairs in one analysis run
MaxPairs == 2
\* number of spans the NER classifier returns for one text
MaxSpans == 1
\* number of outbound links of the large disambiguation page
MaxLinks == 6

----------------------------------------------------------------------------
(* utils/text_utils.py *)

IsSpace(c) == c \in {9, 10, 13, 32}

\* str.lower on one code point (ASCII and Latin-1 letters)
LowerChar(c) ==
    IF c \in 65..90 THEN c + 32
    ELSE IF c \in (192..222) \ {215} THEN c + 32
    ELSE c

\* str.upper on one code point (ASCII and Latin-1 letters)
UpperChar(c) ==
    IF c \in 97..122 THEN c - 32
    ELSE IF c \in (224..254) \ {247} THEN c - 32
    ELSE c

\* unicodedata.normalize("NFKD", c).encode("ascii", "ignore"): an ASCII code
\* point stays, an accented Latin-1 letter keeps its base letter (the
\* combining mark is dropped), any other non-ASCII code point is dropped.
AsciiFold(c) ==
    IF c < 128 THEN << c >>
    ELSE IF c \in 192..197 THEN << 65 >>
    ELSE IF c = 199 THEN << 67 >>
    ELSE IF c \in 200..203 THEN << 69 >>
    ELSE IF c \in 204..207 THEN << 73 >>
    ELSE IF c = 209 THEN << 78 >>
    ELSE IF c \in 210..214 THEN << 79 >>
    ELSE IF c \in 217..220 THEN << 85 >>
    ELSE IF c = 221 THEN << 89 >>
    ELSE IF c \in 224..229 THEN << 97 >>
    ELSE IF c = 231 THEN << 99 >>
    ELSE IF c \in 232..235 THEN << 101 >>
    ELSE IF c \in 236..239 THEN << 105 >>
    ELSE IF c = 241 THEN << 110 >>
    ELSE IF c \in 242..246 THEN << 111 >>
    ELSE IF c \in 249..252 THEN << 117 >>
    ELSE IF c \in {253, 255} THEN << 121 >>
    ELSE << >>

RECURSIVE FoldStr(_)
FoldStr(s) == IF s = << >> THEN << >> ELSE AsciiFold(Head(s)) \o FoldStr(Tail(s))

LowerStr(s) == [i \in 1..Len(s) |-> LowerChar(s[i])]

RECURSIVE LStrip(_)
LStrip(s) == IF s # << >> /\ IsSpace(Head(s)) THEN LStrip(Tail(s)) ELSE s

RECURSIVE RStrip(_)
RStrip(s) ==
    IF s # << >> /\ IsSpace(s[Len(s)]) THEN RStrip(SubSeq(s, 1, Len(s) - 1)) ELSE s

\* str.strip()
Strip(s) == RStrip(LStrip(s))

normalize_text(txt) ==
    IF txt = << >> THEN << >>
    ELSE Strip(LowerStr(FoldStr(txt)))

\* variant: exact membership, "item in item_list"
in_list_exact(item, item_list) == \E n \in 1..Len(item_list) : item_list[n] = item

in_list_case_insensitive(item, item_list) ==
    LET norm_item == normalize_text(item)
    IN \E n \in 1..Len(item_list) : normalize_text(item_list[n]) = norm_item

\* str.split(): the maximal runs of non-whitespace, in order
RECURSIVE SplitFrom(_, _, _)
SplitFrom(s, i, cur) ==
    IF i > Len(s) THEN (IF cur = << >> THEN << >> ELSE << cur >>)
    ELSE IF IsSpace(s[i])
         THEN (IF cur = << >> THEN << >> ELSE << cur >>) \o SplitFrom(s, i + 1, << >>)
         ELSE SplitFrom(s, i + 1, Append(cur, s[i]))

Split(s) == SplitFrom(s, 1, << >>)

\* " ".join(words)
RECURSIVE JoinWords(_)
JoinWords(words) ==
    IF words = << >> THEN << >>
    ELSE IF Len(words) = 1 THEN words[1]
    ELSE words[1] \o << 32 >> \o JoinWords(Tail(words))

\* str.capitalize()
Capitalize(w) ==
    IF w = << >> THEN w ELSE << UpperChar(w[1]) >> \o LowerStr(Tail(w))

\* string.capwords(s)
capwords(s) == LET ws == Split(s) IN JoinWords([i \in 1..Len(ws) |-> Capitalize(ws[i])])

\* "Of", "And", "The", "In", "On", "At", "To", "For", "With", "By"
special_words ==
    { << 79, 102 >>, << 65, 110, 100 >>, << 84, 104, 101 >>, << 73, 110 >>,
      << 79, 110 >>, << 65, 116 >>, << 84, 111 >>, << 70, 111, 114 >>,
      << 87, 105, 116, 104 >>, << 66, 121 >> }

to_title_case(text) ==
    IF text = << >> THEN text
    ELSE LET words == Split(capwords(text))
             fixed == [i \in 1..Len(words) |->
                          IF i > 1 /\ words[i] \in special_words
                          THEN LowerStr(words[i]) ELSE words[i]]
         IN JoinWords(fixed)

----------------------------------------------------------------------------
(* The external collaborators: Wikipedia content provider, pageview        *)
(* provider and LLM service.  The repository only calls them; their        *)
(* contents are a fixed small world, their failures are chosen per call.   *)

DisambiguationCategory == "Category:All disambiguation pages"
OtherCategory == "Category:Living people"

\* titles "P1", "P2", ...: the outbound links of the disambiguation page "P"
LinkTitle(i) == << 80, 48 + i >>
PLinks == [i \in 1..MaxLinks |-> LinkTitle(i)]

P == << 80 >>
E == << 69 >>
EAcute == << 201 >>
AOf == << 65, 32, 111, 102 >>

\* what the content provider holds for a page title
WikiPage(title) ==
    IF title = P
    THEN [exists |-> TRUE, title |-> P, text_len |-> 50, categories |-> {DisambiguationCategory},
          links |-> PLinks]
    ELSE IF title = LinkTitle(2)
    THEN [exists |-> TRUE, title |-> title, text_len |-> 52,
          categories |-> {DisambiguationCategory, OtherCategory}, links |-> << LinkTitle(1) >>]
    ELSE IF title = LinkTitle(3)
    THEN [exists |-> FALSE, title |-> title, text_len |-> 0, categories |-> {}, links |-> << >>]
    ELSE IF Len(title) = 2 /\ title[1] = 80 /\ title[2] \in 49..57
    THEN [exists |-> TRUE, title |-> title, text_len |-> 100 + title[2],
          categories |-> {OtherCategory}, links |-> << P >>]
    ELSE IF title = E
    THEN [exists |-> TRUE, title |-> << 69, 101 >>, text_len |-> 7, categories |-> {},
          links |-> << >>]
    ELSE IF title = EAcute
    THEN [exists |-> TRUE, title |-> title, text_len |-> 8, categories |-> {OtherCategory},
          links |-> << >>]
    ELSE IF title = AOf
    THEN [exists |-> TRUE, title |-> title, text_len |-> 9,
          categories |-> {DisambiguationCategory}, links |-> << >>]
    ELSE [exists |-> FALSE, title |-> title, text_len |-> 0, categories |-> {}, links |-> << >>]

\* page.fullurl
FullUrl(page) == << "https://en.wikipedia.org/wiki/", page.title >>

\* the daily "views" items the pageview provider returns for a title
ViewItems(page_title) ==
    IF page_title = P THEN << 900 >>
    ELSE IF Len(page_title) = 2 /\ page_title[1] = 80 THEN << page_title[2], 1, 0 >>
    ELSE IF page_title = << 69, 101 >> THEN << 2, 3 >>
    ELSE << >>

RECURSIVE SumSeq(_)
SumSeq(s) == IF s = << >> THEN 0 ELSE Head(s) + SumSeq(Tail(s))

\* the page access that raises during one resolution ("none": no access raises)
FailPoints ==
    { "none", "exists", "categories", "links", "resolved_exists", "resolved_categories",
      "text", "fullurl" }

\* outcome of pageviewapi.per_article
PageviewOutcomes == { "ok", "zero", "error" }

\* "NONE"
NONE == << 78, 79, 78, 69 >>

\* what the LLM answers to a disambiguation prompt: a link title, a title in
\* quotes and blanks, NONE, nothing, a title that is no candidate; or the
\* call raises
LLMTexts ==
    { LinkTitle(i) : i \in 1..MaxLinks } \cup
    { << 32, 34 >> \o LinkTitle(1) \o << 34, 10 >>, << 39 >> \o LinkTitle(4) \o << 39 >>,
      NONE, << >>, << 34, 34 >>, << 90 >>, LinkTitle(1) \o << 46 >> }

LLMOutcomes ==
    [raises : {FALSE}, text : LLMTexts] \cup [raises : {TRUE}, text : {<< >>}]

Envs == [fail : FailPoints, pv : PageviewOutcomes, llm : LLMOutcomes]

----------------------------------------------------------------------------
(* utils/llm_utils.py *)

IsQuote(c) == c \in {34, 39}

RECURSIVE LStripQuotes(_)
LStripQuotes(s) == IF s # << >> /\ IsQuote(Head(s)) THEN LStripQuotes(Tail(s)) ELSE s

RECURSIVE RStripQuotes(_)
RStripQuotes(s) ==
    IF s # << >> /\ IsQuote(s[Len(s)]) THEN RStripQuotes(SubSeq(s, 1, Len(s) - 1)) ELSE s

\* str.strip('"\'')
StripQuotes(s) == RStripQuotes(LStripQuotes(s))

\* options[:n]
Take(seq, n) == SubSeq(seq, 1, IF Len(seq) < n THEN Len(seq) ELSE n)

InSeq(x, seq) == \E i \in 1..Len(seq) : seq[i] = x

\* number of options written into the disambiguation prompt
PromptOptions == 15

\* line 153: the options the LLM is shown, options[:15]
Presented(options) == Take(options, PromptOptions)

\* variant: the answer is validated against the options shown in the prompt
resolve_disambiguation_presented(client, entity_name, options, question, answer, llm) ==
    IF client = None \/ options = << >> THEN None
    ELSE IF llm.raises THEN None
    ELSE LET title == StripQuotes(Strip(llm.text))
         IN IF title # << >> /\ title # NONE /\ InSeq(title, Presented(options))
            THEN Some(title) ELSE None

\* returns None or Some(title); llm is the outcome of client.messages.create
resolve_disambiguation(client, entity_name, options, question, answer, llm) ==
    IF client = None \/ options = << >> THEN None
    ELSE IF llm.raises THEN None
    ELSE LET title == StripQuotes(Strip(llm.text))
         IN IF title # << >> /\ title # NONE /\ InSeq(title, options)
            THEN Some(title) ELSE None

----------------------------------------------------------------------------
(* utils/wiki_utils.py *)

\* one external call made during a resolution, in call order
Call(op, arg) == [op |-> op, arg |-> arg]

\* variant: ZeroViewsError handled by the general except clause
fetch_page_views_zero_as_error(page_title, env) ==
    IF env.pv = "ok"
    THEN [is_int |-> TRUE, int |-> SumSeq(ViewItems(page_title)), str |-> None]
    ELSE [is_int |-> FALSE, int |-> 0,
          str |-> Some([msg |-> "Pageview fetch error: {pv_err}", about |-> page_title])]

\* the sum of the daily views, 0 on ZeroViewsError, the error text otherwise
_fetch_page_views(page_title, env) ==
    IF env.pv = "ok"
    THEN [is_int |-> TRUE, int |-> SumSeq(ViewItems(page_title)), str |-> None]
    ELSE IF env.pv = "zero"
    THEN [is_int |-> TRUE, int |-> 0, str |-> None]
    ELSE [is_int |-> FALSE, int |-> 0,
          str |-> Some([msg |-> "Pageview fetch error: {pv_err}", about |-> page_title])]

\* variant: found is set after the page data, an access that raises leaves
\* the fields assigned before it with found still False
populate_found_last(page_info, page, env) ==
    LET i1 == [page_info EXCEPT !.title = page.title]
        i2 == [i1 EXCEPT !.length = Some(page.text_len)]
        i3 == [i2 EXCEPT !.url = Some(FullUrl(page))]
        i4 == [i3 EXCEPT !.found = TRUE]
        views_result == _fetch_page_views(page.title, env)
        i5 == IF views_result.is_int
              THEN [i4 EXCEPT !.views = Some(views_result.int)]
              ELSE [i4 EXCEPT !.views = None,
                              !.error = IF i4.error # None THEN i4.error ELSE views_result.str]
    IN IF env.fail = "text" THEN [info |-> i1, raised |-> Some("text"), calls |-> << >>]
       ELSE IF env.fail = "fullurl" THEN [info |-> i2, raised |-> Some("fullurl"), calls |-> << >>]
       ELSE [info |-> i5, raised |-> None, calls |-> << Call("per_article", page.title) >>]

\* page_info is updated in place, so an access that raises leaves the fields
\* assigned before it.  raised is the access that raised, or None.
_populate_from_page(page_info, page, env) ==
    LET i1 == [page_info EXCEPT !.found = TRUE]
        i2 == [i1 EXCEPT !.title = page.title]
        i3 == [i2 EXCEPT !.length = Some(page.text_len)]
        i4 == [i3 EXCEPT !.url = Some(FullUrl(page))]
        views_result == _fetch_page_views(page.title, env)
        i5 == IF views_result.is_int
              THEN [i4 EXCEPT !.views = Some(views_result.int)]
              ELSE [i4 EXCEPT !.views = None,
                              !.error = IF i4.error # None THEN i4.error ELSE views_result.str]
    IN IF env.fail = "text" THEN [info |-> i2, raised |-> Some("text"), calls |-> << >>]
       ELSE IF env.fail = "fullurl" THEN [info |-> i3, raised |-> Some("fullurl"), calls |-> << >>]
       ELSE [info |-> i5, raised |-> None, calls |-> << Call("per_article", page.title) >>]

\* any(cat.title == "Category:All disambiguation pages" for cat in page.categories.values())
IsDisambiguation(page) == \E cat \in page.categories : cat = DisambiguationCategory

\* variant: no outer except clause, the exception leaves the function
UnexpectedErrorReraised(page_info, gen_err, calls) ==
    [info |-> page_info, raised |-> Some(gen_err), calls |-> calls]

\* except Exception as gen_err (lines 133-137)
UnexpectedError(page_info, gen_err, calls) ==
    [info |-> [page_info EXCEPT
                  !.error = Some([msg |-> "Unexpected error: {gen_err}", about |-> gen_err])],
     raised |-> None, calls |-> calls]

\* except Exception as resolve_err (lines 114-117)
ResolveError(page_info, selected_title, resolve_err, calls) ==
    [info |-> [page_info EXCEPT
                  !.error = Some([msg |-> "Error fetching resolved page '{selected_title}': {resolve_err}",
                                  about |-> selected_title])],
     raised |-> None, calls |-> calls]

\* variant: all the options are listed, without the [:5]
DisambiguationErrorUncut(page_info, entity_name_title_case, options, calls) ==
    [info |-> [page_info EXCEPT
                  !.error = Some([msg |-> "Disambiguation: {entity_name_title_case}. Options: {options[:5]}...",
                                  about |-> entity_name_title_case,
                                  options |-> options])],
     raised |-> None, calls |-> calls]

\* lines 119-124
DisambiguationError(page_info, entity_name_title_case, options, calls) ==
    [info |-> [page_info EXCEPT
                  !.error = Some([msg |-> "Disambiguation: {entity_name_title_case}. Options: {options[:5]}...",
                                  about |-> entity_name_title_case,
                                  options |-> Take(options, 5)])],
     raised |-> None, calls |-> calls]

\* variant: no else branch, page_info is returned as initialised
NotFoundSilent(page_info, calls) == [info |-> page_info, raised |-> None, calls |-> calls]

\* lines 129-131
NotFound(page_info, calls) ==
    [info |-> [page_info EXCEPT !.error = Some([msg |-> "Page not found on Wikipedia."])],
     raised |-> None, calls |-> calls]

\* variant: the selected page is checked, the original page is populated
FetchSelectedFromOriginal(page_info, entity_name_title_case, options, selected_title, env, calls) ==
    LET resolved_page == WikiPage(selected_title)
        c == Append(calls, Call("page", selected_title))
        pop == _populate_from_page(page_info, WikiPage(entity_name_title_case), env)
    IN IF env.fail = "resolved_exists"
       THEN ResolveError(page_info, selected_title, "exists", c)
       ELSE IF ~resolved_page.exists
       THEN DisambiguationError(page_info, entity_name_title_case, options, c)
       ELSE IF env.fail = "resolved_categories"
       THEN ResolveError(page_info, selected_title, "categories", c)
       ELSE IF IsDisambiguation(resolved_page)
       THEN DisambiguationError(page_info, entity_name_title_case, options, c)
       ELSE IF pop.raised # None
       THEN ResolveError(pop.info, selected_title, pop.raised[1], c \o pop.calls)
       ELSE [info |-> pop.info, raised |-> None, calls |-> c \o pop.calls]

\* lines 101-124 when resolve_disambiguation returned selected_title
FetchSelected(page_info, entity_name_title_case, options, selected_title, env, calls) ==
    LET resolved_page == WikiPage(selected_title)
        c == Append(calls, Call("page", selected_title))
        pop == _populate_from_page(page_info, resolved_page, env)
    IN IF env.fail = "resolved_exists"
       THEN ResolveError(page_info, selected_title, "exists", c)
       ELSE IF ~resolved_page.exists
       THEN DisambiguationError(page_info, entity_name_title_case, options, c)
       ELSE IF env.fail = "resolved_categories"
       THEN ResolveError(page_info, selected_title, "categories", c)
       ELSE IF IsDisambiguation(resolved_page)
       THEN DisambiguationError(page_info, entity_name_title_case, options, c)
       ELSE IF pop.raised # None
       THEN ResolveError(pop.info, selected_title, pop.raised[1], c \o pop.calls)
       ELSE [info |-> pop.info, raised |-> None, calls |-> c \o pop.calls]

\* lines 92-94: the candidate titles of a disambiguation page
Options(page, entity_name_title_case) ==
    IF page.links # << >> THEN page.links
    ELSE << entity_name_title_case \o
            << 32, 40, 100, 105, 115, 97, 109, 98, 105, 103, 117, 97, 116, 105, 111, 110, 41 >> >>

\* The result: info is the returned page_info, raised is the exception that
\* leaves the function (None: it returns), calls are the external calls made.
get_wikipedia_data(entity_name, question, answer, client, env) ==
    LET entity_name_title_case == to_title_case(entity_name)
        page_info == [title |-> entity_name_title_case, length |-> None, views |-> None,
                      url |-> None, found |-> FALSE, error |-> None]
        page == WikiPage(entity_name_title_case)
        c1 == << Call("page", entity_name_title_case) >>
        options == Options(page, entity_name_title_case)
        selected_title == resolve_disambiguation(client, entity_name_title_case, options,
                                                 question, answer, env.llm)
        c2 == Append(c1, Call("resolve_disambiguation", entity_name_title_case))
        pop == _populate_from_page(page_info, page, env)
    IN IF env.fail = "exists" THEN UnexpectedError(page_info, "exists", c1)
       ELSE IF ~page.exists THEN NotFound(page_info, c1)
       ELSE IF env.fail = "categories" THEN UnexpectedError(page_info, "categories", c1)
       ELSE IF ~IsDisambiguation(page)
       THEN IF pop.raised # None
            THEN UnexpectedError(pop.info, pop.raised[1], c1 \o pop.calls)
            ELSE [info |-> pop.info, raised |-> None, calls |-> c1 \o pop.calls]
       ELSE IF env.fail = "links" THEN UnexpectedError(page_info, "links", c1)
       ELSE IF selected_title = None
       THEN DisambiguationError(page_info, entity_name_title_case, options, c2)
       ELSE FetchSelected(page_info, entity_name_title_case, options, selected_title[1], env, c2)

----------------------------------------------------------------------------
(* utils/config.py, utils/nlp_utils.py and identify_main_topic *)

ENTITY_TYPES_TO_KEEP ==
    { "PERSON", "ORG", "LOC", "GPE", "FAC", "PRODUCT", "EVENT", "WORK_OF_ART", "NORP", "LAW" }

\* the set the function builds; doc_ents are the spans of the classifier
extract_entities(text, doc_ents) ==
    IF text = << >> THEN {}
    ELSE { Strip(doc_ents[k].text) :
             k \in { n \in 1..Len(doc_ents) : doc_ents[n].label_ \in ENTITY_TYPES_TO_KEEP } }
         \ { << >> }

\* list(entities): the elements of the set in some order
Orderings(S) ==
    { f \in [1..Cardinality(S) -> S] : \A x \in S : \E n \in 1..Cardinality(S) : f[n] = x }

\* llm is the outcome of client.messages.create; returns None or Some(topic)
identify_main_topic(client, question, answer, llm) ==
    IF llm.raises THEN None
    ELSE LET topic == StripQuotes(Strip(llm.text))
         IN IF topic # << >> THEN Some(topic) ELSE None

----------------------------------------------------------------------------
(* app.py: the work on one pair before the Wikipedia lookups, lines 84-104 *)

\* combined_entities[key] = value on a dict kept as its items in insertion order
DictSet(d, key, value) ==
    IF \E n \in 1..Len(d) : d[n].key = key
    THEN [n \in 1..Len(d) |-> IF d[n].key = key THEN [key |-> key, value |-> value] ELSE d[n]]
    ELSE Append(d, [key |-> key, value |-> value])

\* the two nested for loops over entity lists whose elements are None or Some(str)
RECURSIVE CombineEntities(_, _)
CombineEntities(combined_entities, items) ==
    IF items = << >> THEN combined_entities
    ELSE LET entity == Head(items)
         IN IF entity # None /\ entity[1] # << >>
            THEN CombineEntities(DictSet(combined_entities, normalize_text(entity[1]), entity[1]),
                                 Tail(items))
            ELSE CombineEntities(combined_entities, Tail(items))

\* a < b for strings (code point order)
RECURSIVE StrLess(_, _)
StrLess(a, b) ==
    IF b = << >> THEN FALSE
    ELSE IF a = << >> THEN TRUE
    ELSE IF Head(a) # Head(b) THEN Head(a) < Head(b)
    ELSE StrLess(Tail(a), Tail(b))

\* insert x after the elements whose key is not greater (the sort is stable)
RECURSIVE InsertByLower(_, _)
InsertByLower(sorted, x) ==
    IF sorted = << >> THEN << x >>
    ELSE IF StrLess(LowerStr(x), LowerStr(Head(sorted))) THEN << x >> \o sorted
    ELSE << Head(sorted) >> \o InsertByLower(Tail(sorted), x)

\* sorted(values, key=str.lower)
RECURSIVE SortedByLower(_)
SortedByLower(values) ==
    IF values = << >> THEN << >>
    ELSE InsertByLower(SortedByLower(SubSeq(values, 1, Len(values) - 1)), values[Len(values)])

\* lines 85-87: the answer entities with the literal answer forced in
AnswerEntities(answer, extracted) ==
    IF answer # << >> /\ ~in_list_case_insensitive(answer, extracted)
    THEN Append(extracted, answer) ELSE extracted

\* lines 84-104 for one pair: extracted_a and extracted_q are the lists
\* extract_entities returned, main_topic what identify_main_topic returned
AnalysePair(pair, include_q, extracted_a, extracted_q, topic) ==
    LET ans_ents == AnswerEntities(pair.answer, extracted_a)
        q_ents == IF include_q THEN extracted_q ELSE << >>
        items == [n \in 1..Len(ans_ents) |-> Some(ans_ents[n])] \o
                 [n \in 1..Len(q_ents) |-> Some(q_ents[n])] \o << topic >>
        combined == CombineEntities(<< >>, items)
    IN [answer_entities |-> ans_ents, question_entities |-> q_ents, main_topic |-> topic,
        combined_entities |-> combined,
        unique_entities_to_fetch |-> SortedByLower([n \in 1..Len(combined) |-> combined[n].value])]

----------------------------------------------------------------------------
(* utils/llm_utils.py: structure_qa_pairs and the JSON text it decodes *)

\* the index of the first code point at or after i that is no JSON whitespace
RECURSIVE SkipWs(_, _)
SkipWs(s, i) == IF i <= Len(s) /\ IsSpace(s[i]) THEN SkipWs(s, i + 1) ELSE i

\* s has the word w at index i
HasWord(s, i, w) == i + Len(w) - 1 <= Len(s) /\ SubSeq(s, i, i + Len(w) - 1) = w

JsonFail == [ok |-> FALSE, val |-> [t |-> "none", v |-> << >>], pos |-> 0]
JsonOk(t, v, pos) == [ok |-> TRUE, val |-> [t |-> t, v |-> v], pos |-> pos]

\* the index of the quote that closes a string whose content starts at i, or
\* 0 (the texts of the model hold no escape sequences)
RECURSIVE StringEnd(_, _)
StringEnd(s, i) ==
    IF i > Len(s) THEN 0
    ELSE IF s[i] = 34 THEN i
    ELSE IF s[i] < 32 \/ s[i] = 92 THEN 0
    ELSE StringEnd(s, i + 1)

\* the index after a run of digits starting at i
RECURSIVE DigitsEnd(_, _)
DigitsEnd(s, i) == IF i <= Len(s) /\ s[i] \in 48..57 THEN DigitsEnd(s, i + 1) ELSE i

\* json.loads on the value starting at index i: ok, the value as
\* [t |-> type, v |-> content] and the index after it.  A dict is its items
\* in insertion order, a list the sequence of its values.
RECURSIVE ParseValue(_, _), ParseItems(_, _, _), ParseMembers(_, _, _)
ParseValue(s, i) ==
    IF i > Len(s) THEN JsonFail
    ELSE IF s[i] = 34
    THEN LET e == StringEnd(s, i + 1)
         IN IF e = 0 THEN JsonFail ELSE JsonOk("str", SubSeq(s, i + 1, e - 1), e + 1)
    ELSE IF s[i] \in 48..57
    THEN LET e == DigitsEnd(s, i)
         IN IF s[i] = 48 /\ e > i + 1 THEN JsonFail ELSE JsonOk("int", SubSeq(s, i, e - 1), e)
    ELSE IF HasWord(s, i, << 110, 117, 108, 108 >>) THEN JsonOk("null", << >>, i + 4)
    ELSE IF s[i] = 91
    THEN LET j == SkipWs(s, i + 1)
         IN IF j <= Len(s) /\ s[j] = 93 THEN JsonOk("list", << >>, j + 1)
            ELSE ParseItems(s, j, << >>)
    ELSE IF s[i] = 123
    THEN LET j == SkipWs(s, i + 1)
         IN IF j <= Len(s) /\ s[j] = 125 THEN JsonOk("dict", << >>, j + 1)
            ELSE ParseMembers(s, j, << >>)
    ELSE JsonFail

\* the values of a list after "[" or ",", up to "]"
ParseItems(s, i, acc) ==
    LET r == ParseValue(s, i)
        j == SkipWs(s, r.pos)
    IN IF ~r.ok \/ j > Len(s) THEN JsonFail
       ELSE IF s[j] = 93 THEN JsonOk("list", Append(acc, r.val), j + 1)
       ELSE IF s[j] = 44 THEN ParseItems(s, SkipWs(s, j + 1), Append(acc, r.val))
       ELSE JsonFail

\* the members of an object after "{" or ",", up to "}"
ParseMembers(s, i, acc) ==
    LET k == ParseValue(s, i)
        c == SkipWs(s, k.pos)
        r == ParseValue(s, SkipWs(s, c + 1))
        j == SkipWs(s, r.pos)
    IN IF ~k.ok \/ k.val.t # "str" \/ c > Len(s) \/ s[c] # 58 THEN JsonFail
       ELSE IF ~r.ok \/ j > Len(s) THEN JsonFail
       ELSE IF s[j] = 125 THEN JsonOk("dict", DictSet(acc, k.val.v, r.val), j + 1)
       ELSE IF s[j] = 44 THEN ParseMembers(s, SkipWs(s, j + 1), DictSet(acc, k.val.v, r.val))
       ELSE JsonFail

\* json.loads(json_string): Some(value), or None for JSONDecodeError
json_loads(json_string) ==
    LET r == ParseValue(json_string, SkipWs(json_string, 1))
    IN IF r.ok /\ SkipWs(json_string, r.pos) > Len(json_string) THEN Some(r.val) ELSE None

\* line 49, re.search(r"^\s*(\[.*?\])\s*$", text, re.DOTALL): group 1 is the
\* text without surrounding whitespace when it runs from a "[" to a "]"
JsonMatch(text) ==
    LET t == Strip(text)
    IN IF Len(t) >= 2 /\ t[1] = 91 /\ t[Len(t)] = 93 THEN Some(t) ELSE None

\* "key in item" for a dict
HasKey(item, key) == \E n \in 1..Len(item.v) : item.v[n].key = key

\* item[key] for a key of the dict
DictGet(item, key) == item.v[CHOOSE n \in 1..Len(item.v) : item.v[n].key = key].value

\* "question", "answer"
QuestionKey == << 113, 117, 101, 115, 116, 105, 111, 110 >>
AnswerKey == << 97, 110, 115, 119, 101, 114 >>

\* variant: only the "question" key is required
IsQAListQuestionOnly(structured_data) ==
    /\ structured_data.t = "list"
    /\ \A n \in 1..Len(structured_data.v) :
          structured_data.v[n].t = "dict" /\ HasKey(structured_data.v[n], QuestionKey)

\* lines 55-61: a list of dicts that each have "question" and "answer"
IsQAList(structured_data) ==
    /\ structured_data.t = "list"
    /\ \A n \in 1..Len(structured_data.v) :
          /\ structured_data.v[n].t = "dict"
          /\ HasKey(structured_data.v[n], QuestionKey)
          /\ HasKey(structured_data.v[n], AnswerKey)

\* ret is None (the failure signal) or Some(list of dicts); called tells
\* whether client.messages.create was called; llm is its outcome
structure_qa_pairs(client, text_input, llm) ==
    IF Strip(text_input) = << >> THEN [ret |-> Some(<< >>), called |-> FALSE]
    ELSE IF llm.raises THEN [ret |-> None, called |-> TRUE]
    ELSE LET json_match == JsonMatch(llm.text)
             structured_data == json_loads(json_match[1])
         IN IF json_match = None THEN [ret |-> None, called |-> TRUE]
            ELSE IF structured_data = None THEN [ret |-> None, called |-> TRUE]
            ELSE IF IsQAList(structured_data[1])
            THEN [ret |-> Some(structured_data[1].v), called |-> TRUE]
            ELSE [ret |-> None, called |-> TRUE]

----------------------------------------------------------------------------
(* Inputs of the model *)

SeqsUpTo(S, n) == UNION { [1..k -> S] : k \in 0..n }

\* the non-empty substrings of a text: the spans a classifier can mark in it
Substrings(text) == { SubSeq(text, a, b) : a, b \in 1..Len(text) } \ { << >> }

\* doc.ents for a text: up to MaxSpans spans, each with a kept or a dropped label
ClassifierOutputs(text) ==
    SeqsUpTo([text : Substrings(text), label_ : {"GPE", "DATE"}], MaxSpans)

Client == Some("anthropic.Anthropic")

\* "", "p", "P", " ", "é", "e É", "ø", " p"
MergeAnswers ==
    { << >>, << 112 >>, << 80 >>, << 32 >>, << 233 >>, << 101, 32, 201 >>, << 248 >>,
      << 32, 112 >> }

\* "P?"
MergeQuestion == << 80, 63 >>

\* answers of the LLM to the key-entity prompt: P, "p", nothing, a blank,
\* a quoted blank, é, ø; or the call raises
TopicOutcomes ==
    [raises : {FALSE},
     text : { << 80 >>, << 34, 112, 34 >>, << >>, << 32 >>, << 34, 32, 34 >>, << 233 >>,
              << 248 >> }]
    \cup [raises : {TRUE}, text : {<< >>}]

\* entity names given to get_wikipedia_data: "p", "P", "e", "é", " ", "ø",
\* "a of", "p1", "p2", "p3", " p4 "
WikiEntityNames ==
    { << 112 >>, << 80 >>, << 101 >>, << 233 >>, << 32 >>, << 248 >>,
      << 97, 32, 111, 102 >>, << 112, 49 >>, << 112, 50 >>, << 112, 51 >>,
      << 32, 112, 52, 32 >> }

\* the pairs of a whole run: question "?", answers "p" and "e"
DriverPairs == [question : {<< 63 >>}, answer : {<< 112 >>, << 101 >>}]

\* key-entity answers in a whole run: nothing, or the call raises (the key
\* entities of SpecMerge would only multiply the result groups)
DriverTopicOutcomes ==
    [raises : {FALSE}, text : {<< >>}] \cup [raises : {TRUE}, text : {<< >>}]

\* environments of a lookup in a whole run: the LLM picks "P1", answers NONE
\* or raises
DriverEnvs ==
    [fail : FailPoints, pv : PageviewOutcomes,
     llm : [raises : {FALSE}, text : {LinkTitle(1), NONE}] \cup [raises : {TRUE}, text : {<< >>}]]

----------------------------------------------------------------------------
(* State *)

VARIABLES
    structured_pairs,     \* app.py: what structure_qa_pairs returned
    include_q_entities,   \* app.py: the checkbox
    pc,                   \* app.py: position in the analysis loop
    i,                    \* app.py: index of the current pair (from 1)
    analysis,             \* app.py: lines 84-104 for the current pair, or None
    entity_data_list,     \* app.py: results fetched for the current pair
    shown,                \* the result groups displayed so far
    merge_args, merge_ret,   \* one evaluation of lines 84-104
    wiki_args, wiki_ret,     \* one call of get_wikipedia_data
    llm_args, llm_ret        \* one call of a function of utils/llm_utils.py

driver_vars ==
    << structured_pairs, include_q_entities, pc, i, analysis, entity_data_list, shown >>
merge_vars == << merge_args, merge_ret >>
wiki_vars == << wiki_args, wiki_ret >>
llm_vars == << llm_args, llm_ret >>
vars == << driver_vars, merge_vars, wiki_vars, llm_vars >>

DriverIdle ==
    /\ structured_pairs = << >> /\ include_q_entities = FALSE /\ pc = "idle" /\ i = 1
    /\ analysis = None /\ entity_data_list = << >> /\ shown = << >>
MergeIdle == merge_args = None /\ merge_ret = None
WikiIdle == wiki_args = None /\ wiki_ret = None
LlmIdle == llm_args = None /\ llm_ret = None

----------------------------------------------------------------------------
(* The analysis loop of app.py, lines 73-181 *)

Init ==
    /\ structured_pairs \in SeqsUpTo(DriverPairs, MaxPairs) \ { << >> }
    /\ include_q_entities \in BOOLEAN
    /\ pc = "pair" /\ i = 1
    /\ analysis = None /\ entity_data_list = << >> /\ shown = << >>
    /\ MergeIdle /\ WikiIdle /\ LlmIdle

Group(n, entities, data) == [pair |-> n, entities |-> entities, data |-> data]

\* lines 74-108: extraction, key entity, merge; "continue" when nothing is left
ProcessPair(Topics) ==
    /\ pc = "pair" /\ i <= Len(structured_pairs)
    /\ LET pair == structured_pairs[i]
       IN \E doc_a \in ClassifierOutputs(pair.answer), doc_q \in ClassifierOutputs(pair.question),
             llm \in Topics :
          \E extracted_a \in Orderings(extract_entities(pair.answer, doc_a)),
             extracted_q \in Orderings(extract_entities(pair.question, doc_q)) :
             LET a == AnalysePair(pair, include_q_entities, extracted_a, extracted_q,
                                  identify_main_topic(Client, pair.question, pair.answer, llm))
             IN IF a.unique_entities_to_fetch = << >>
                THEN /\ shown' = Append(shown, Group(i, << >>, << >>))
                     /\ i' = i + 1
                     /\ UNCHANGED << pc, analysis >>
                ELSE /\ analysis' = Some(a)
                     /\ pc' = "fetch"
                     /\ UNCHANGED << shown, i >>
    /\ UNCHANGED << structured_pairs, include_q_entities, entity_data_list >>
    /\ UNCHANGED << merge_vars, wiki_vars, llm_vars >>

\* lines 113-117: one iteration; an exception leaving get_wikipedia_data ends the run
FetchEntity(EnvSet) ==
    /\ pc = "fetch"
    /\ Len(entity_data_list) < Len(analysis[1].unique_entities_to_fetch)
    /\ \E env \in EnvSet :
          LET pair == structured_pairs[i]
              entity == analysis[1].unique_entities_to_fetch[Len(entity_data_list) + 1]
              r == get_wikipedia_data(entity, pair.question, pair.answer, Client, env)
          IN IF r.raised # None
             THEN /\ pc' = "aborted"
                  /\ UNCHANGED entity_data_list
             ELSE /\ entity_data_list' = Append(entity_data_list, r.info)
                  /\ pc' = pc
    /\ UNCHANGED << structured_pairs, include_q_entities, i, analysis, shown >>
    /\ UNCHANGED << merge_vars, wiki_vars, llm_vars >>

\* lines 119-181: the table of the pair, then the next pair
DisplayPair ==
    /\ pc = "fetch"
    /\ Len(entity_data_list) = Len(analysis[1].unique_entities_to_fetch)
    /\ shown' = Append(shown, Group(i, analysis[1].unique_entities_to_fetch, entity_data_list))
    /\ i' = i + 1 /\ pc' = "pair"
    /\ analysis' = None /\ entity_data_list' = << >>
    /\ UNCHANGED << structured_pairs, include_q_entities >>
    /\ UNCHANGED << merge_vars, wiki_vars, llm_vars >>

Next == ProcessPair(DriverTopicOutcomes) \/ FetchEntity(DriverEnvs) \/ DisplayPair

Spec == Init /\ [][Next]_vars

\* the run has ended normally
Done == pc = "pair" /\ i > Len(structured_pairs)

----------------------------------------------------------------------------
(* Lines 84-104 of app.py on one pair, over a wide range of inputs *)

InitMerge ==
    /\ merge_args \in { Some(x) : x \in [pair : [question : {MergeQuestion}, answer : MergeAnswers],
                                         include_q_entities : BOOLEAN] }
    /\ merge_ret = None
    /\ DriverIdle /\ WikiIdle /\ LlmIdle

Merge ==
    /\ merge_args # None /\ merge_ret = None
    /\ LET pair == merge_args[1].pair
       IN \E doc_a \in ClassifierOutputs(pair.answer), doc_q \in ClassifierOutputs(pair.question),
             llm \in TopicOutcomes :
          \E extracted_a \in Orderings(extract_entities(pair.answer, doc_a)),
             extracted_q \in Orderings(extract_entities(pair.question, doc_q)) :
             merge_ret' = Some([extracted_a |-> extracted_a, extracted_q |-> extracted_q,
                                llm |-> llm,
                                a |-> AnalysePair(pair, merge_args[1].include_q_entities,
                                                  extracted_a, extracted_q,
                                                  identify_main_topic(Client, pair.question,
                                                                      pair.answer, llm))])
    /\ UNCHANGED << merge_args, driver_vars, wiki_vars, llm_vars >>

NextMerge == Merge

SpecMerge == InitMerge /\ [][NextMerge]_vars

----------------------------------------------------------------------------
(* One call of get_wikipedia_data, over a wide range of inputs *)

InitWiki ==
    /\ wiki_args \in { Some(x) : x \in [entity_name : WikiEntityNames, client : {None, Client}] }
    /\ wiki_ret = None
    /\ DriverIdle /\ MergeIdle /\ LlmIdle

CallWiki ==
    /\ wiki_args # None /\ wiki_ret = None
    /\ \E env \in Envs :
          wiki_ret' = Some([env |-> env,
                            r |-> get_wikipedia_data(wiki_args[1].entity_name, MergeQuestion,
                                                     << 80 >>, wiki_args[1].client, env)])
    /\ UNCHANGED << wiki_args, driver_vars, merge_vars, llm_vars >>

NextWiki == CallWiki

SpecWiki == InitWiki /\ [][NextWiki]_vars

----------------------------------------------------------------------------
(* One call of resolve_disambiguation, over a wide range of inputs *)

\* candidates beyond the ones the prompt shows
MaxHidden == 1

\* titles "TA", "TB", ...: more candidates than the prompt shows
LongOptions == [n \in 1..(PromptOptions + MaxHidden) |-> << 84, 64 + n >>]

\* candidate lists: none, the links of "P", the long list, the fallback title
\* of "A of", a list holding the title "NONE"
DisambOptions ==
    { << >>, PLinks, LongOptions, Options(WikiPage(AOf), AOf), << LinkTitle(1), NONE >> }

\* answers of the LLM: each candidate, bare or in quotes and blanks, NONE,
\* "NONE" in quotes, nothing, blanks, a title that is no candidate, a
\* candidate followed by a full stop; or the call raises
DisambOutcomes ==
    LET titles == { LongOptions[n] : n \in 1..Len(LongOptions) } \cup
                  { LinkTitle(1), LinkTitle(MaxLinks), Options(WikiPage(AOf), AOf)[1] }
    IN [raises : {FALSE},
        text : titles \cup { << 32, 34 >> \o t \o << 34, 10 >> : t \in titles } \cup
               { NONE, << 34 >> \o NONE \o << 34 >>, << >>, << 32, 10 >>, << 90 >>,
                 LinkTitle(1) \o << 46 >> }]
       \cup [raises : {TRUE}, text : {<< >>}]

InitDisamb ==
    /\ llm_args \in { Some(x) : x \in [fn : {"resolve_disambiguation"},
                                       client : {None, Client}, options : DisambOptions] }
    /\ llm_ret = None
    /\ DriverIdle /\ MergeIdle /\ WikiIdle

CallResolve ==
    /\ llm_args # None /\ llm_ret = None
    /\ \E llm \in DisambOutcomes :
          llm_ret' = Some([llm |-> llm,
                           ret |-> resolve_disambiguation(llm_args[1].client, P,
                                                          llm_args[1].options, MergeQuestion,
                                                          << 80 >>, llm)])
    /\ UNCHANGED << llm_args, driver_vars, merge_vars, wiki_vars >>

NextDisamb == CallResolve

SpecDisamb == InitDisamb /\ [][NextDisamb]_vars

----------------------------------------------------------------------------
(* One call of structure_qa_pairs, over a wide range of inputs *)

\* responses that are, apart from surrounding whitespace, a JSON array of objects
\* that each have "question" and "answer"
ArrayResponses ==
    {
      \* []
      << 91, 93 >>,
      \*  [{"question": "q", "answer": "a"}]\n
      << 32, 91, 123, 34, 113, 117, 101, 115, 116, 105, 111, 110, 34, 58, 32, 34, 113, 34, 44, 32, 34, 97, 110, 115, 119, 101, 114, 34, 58, 32, 34, 97, 34, 125, 93, 10 >>,
      \* [{"question":"q","answer":"a"},{"question":"r","answer":"b"}]
      << 91, 123, 34, 113, 117, 101, 115, 116, 105, 111, 110, 34, 58, 34, 113, 34, 44, 34, 97, 110, 115, 119, 101, 114, 34, 58, 34, 97, 34, 125, 44, 123, 34, 113, 117, 101, 115, 116, 105, 111, 110, 34, 58, 34, 114, 34, 44, 34, 97, 110, 115, 119, 101, 114, 34, 58, 34, 98, 34, 125, 93 >>,
      \* [{"question":"q","answer":""}]
      << 91, 123, 34, 113, 117, 101, 115, 116, 105, 111, 110, 34, 58, 34, 113, 34, 44, 34, 97, 110, 115, 119, 101, 114, 34, 58, 34, 34, 125, 93 >>,
      \* [{"question":" ","answer":"a"}]
      << 91, 123, 34, 113, 117, 101, 115, 116, 105, 111, 110, 34, 58, 34, 32, 34, 44, 34, 97, 110, 115, 119, 101, 114, 34, 58, 34, 97, 34, 125, 93 >>,
      \* [{"question":"q","answer":null}]
      << 91, 123, 34, 113, 117, 101, 115, 116, 105, 111, 110, 34, 58, 34, 113, 34, 44, 34, 97, 110, 115, 119, 101, 114, 34, 58, 110, 117, 108, 108, 125, 93 >>,
      \* [{"answer":"a","note":"x","question":"q"}]
      << 91, 123, 34, 97, 110, 115, 119, 101, 114, 34, 58, 34, 97, 34, 44, 34, 110, 111, 116, 101, 34, 58, 34, 120, 34, 44, 34, 113, 117, 101, 115, 116, 105, 111, 110, 34, 58, 34, 113, 34, 125, 93 >>
    }

\* responses with prose before or after such an array
ProseArrayResponses ==
    {
      \* See [{"question":"q","answer":"a"}]
      << 83, 101, 101, 32, 91, 123, 34, 113, 117, 101, 115, 116, 105, 111, 110, 34, 58, 34, 113, 34, 44, 34, 97, 110, 115, 119, 101, 114, 34, 58, 34, 97, 34, 125, 93 >>,
      \* [{"question":"q","answer":"a"}] ok
      << 91, 123, 34, 113, 117, 101, 115, 116, 105, 111, 110, 34, 58, 34, 113, 34, 44, 34, 97, 110, 115, 119, 101, 114, 34, 58, 34, 97, 34, 125, 93, 32, 111, 107 >>
    }

\* responses that are no such array: prose, nothing, a missing key, undecodable
\* JSON, elements that are no objects, an object instead of an array
MalformedResponses ==
    {
      \* No pairs.
      << 78, 111, 32, 112, 97, 105, 114, 115, 46 >>,
      \* (empty)
      << >>,
      \* [{"question":"q"}]
      << 91, 123, 34, 113, 117, 101, 115, 116, 105, 111, 110, 34, 58, 34, 113, 34, 125, 93 >>,
      \* [{"question":"q","answer":"a"},]
      << 91, 123, 34, 113, 117, 101, 115, 116, 105, 111, 110, 34, 58, 34, 113, 34, 44, 34, 97, 110, 115, 119, 101, 114, 34, 58, 34, 97, 34, 125, 44, 93 >>,
      \* ["q","a"]
      << 91, 34, 113, 34, 44, 34, 97, 34, 93 >>,
      \* [1] or [2]
      << 91, 49, 93, 32, 111, 114, 32, 91, 50, 93 >>,
      \* {"question":"q","answer":"a"}
      << 123, 34, 113, 117, 101, 115, 116, 105, 111, 110, 34, 58, 34, 113, 34, 44, 34, 97, 110, 115, 119, 101, 114, 34, 58, 34, 97, 34, 125 >>,
      \* [[]]
      << 91, 91, 93, 93 >>,
      \* [{"question":"q" "answer":"a"}]
      << 91, 123, 34, 113, 117, 101, 115, 116, 105, 111, 110, 34, 58, 34, 113, 34, 32, 34, 97, 110, 115, 119, 101, 114, 34, 58, 34, 97, 34, 125, 93 >>,
      \* [7]
      << 91, 55, 93 >>
    }

\* raw texts: empty, whitespace only, and texts with pairs
StructureInputs ==
    {
      \* (empty)
      << >>,
      \*  
      << 32 >>,
      \* \n	 
      << 10, 9, 32 >>,
      \* Q: q A: a
      << 81, 58, 32, 113, 32, 65, 58, 32, 97 >>,
      \* q? a
      << 113, 63, 32, 97 >>,
      \*  q\na 
      << 32, 113, 10, 97, 32 >>
    }

StructureOutcomes ==
    [raises : {FALSE}, text : ArrayResponses \cup ProseArrayResponses \cup MalformedResponses]
    \cup [raises : {TRUE}, text : {<< >>}]

InitStructure ==
    /\ llm_args \in { Some(x) : x \in [fn : {"structure_qa_pairs"}, client : {Client},
                                       text_input : StructureInputs] }
    /\ llm_ret = None
    /\ DriverIdle /\ MergeIdle /\ WikiIdle

CallStructure ==
    /\ llm_args # None /\ llm_ret = None
    /\ \E llm \in StructureOutcomes :
          llm_ret' = Some([llm |-> llm,
                           r |-> structure_qa_pairs(llm_args[1].client, llm_args[1].text_input,
                                                    llm)])
    /\ UNCHANGED << llm_args, driver_vars, merge_vars, wiki_vars >>

NextStructure == CallStructure

SpecStructure == InitStructure /\ [][NextStructure]_vars

----------------------------------------------------------------------------
(* What one call of get_wikipedia_data met and returned (SpecWiki) *)

WikiReturned == wiki_ret # None
WikiInfo == wiki_ret[1].r.info
WikiEnv == wiki_ret[1].env
WikiCalls == wiki_ret[1].r.calls
WikiTitle == to_title_case(wiki_args[1].entity_name)
WikiFirstPage == WikiPage(WikiTitle)

CountCalls(op) == Cardinality({ n \in 1..Len(WikiCalls) : WikiCalls[n].op = op })

\* page.exists() returned False / True for the title-cased entity name
FirstMissing == WikiReturned /\ WikiEnv.fail # "exists" /\ ~WikiFirstPage.exists
FirstExists == WikiReturned /\ WikiEnv.fail # "exists" /\ WikiFirstPage.exists
\* the category check ran and found an article / a disambiguation page
FirstIsArticle ==
    FirstExists /\ WikiEnv.fail # "categories" /\ ~IsDisambiguation(WikiFirstPage)
FirstIsDisambiguation ==
    FirstExists /\ WikiEnv.fail # "categories" /\ IsDisambiguation(WikiFirstPage)
\* the links were read and the disambiguation resolver was asked
ResolverAsked == FirstIsDisambiguation /\ WikiEnv.fail # "links"
ResolverAnswer ==
    resolve_disambiguation(wiki_args[1].client, WikiTitle, Options(WikiFirstPage, WikiTitle),
                           MergeQuestion, << 80 >>, WikiEnv.llm)
ResolverAbsent == ResolverAsked /\ ResolverAnswer = None
ResolverSelected == ResolverAsked /\ ResolverAnswer # None
SelectedPage == WikiPage(ResolverAnswer[1])
\* the selected page exists and is not itself a disambiguation page
SelectedIsArticle ==
    /\ ResolverSelected
    /\ WikiEnv.fail \notin {"resolved_exists", "resolved_categories"}
    /\ SelectedPage.exists /\ ~IsDisambiguation(SelectedPage)
\* the text and the url of the page that is populated were read
PageDataRead == WikiEnv.fail \notin {"text", "fullurl"}

\* the views field after a pageview outcome for a page title
ViewsFor(page_title) ==
    IF WikiEnv.pv = "ok" THEN Some(SumSeq(ViewItems(page_title)))
    ELSE IF WikiEnv.pv = "zero" THEN Some(0)
    ELSE None

\* the page data of a page is in the result
HasDataOf(page) ==
    /\ WikiInfo.title = page.title
    /\ WikiInfo.length = Some(page.text_len)
    /\ WikiInfo.url = Some(FullUrl(page))

----------------------------------------------------------------------------
(* Claims on get_wikipedia_data (SpecWiki) *)

\* C1: every result with found = true has length and url present, on every
\* path, also when a page access raised.
C1_FoundImpliesLengthUrl ==
    WikiReturned => (WikiInfo.found => WikiInfo.length # None /\ WikiInfo.url # None)

\* C5: the title of every result for a non-empty entity name is a non-empty
\* string: the canonical title of the populated page, else the title-cased
\* input name.
C5_TitleNonEmpty ==
    WikiReturned =>
        /\ WikiInfo.title # << >>
        /\ WikiInfo.title \in {WikiTitle, WikiFirstPage.title} \cup
                              { WikiPage(t).title : t \in LLMTexts }

C7_UnresolvedListsLinks ==
    ResolverAbsent =>
        /\ ~WikiInfo.found
        /\ WikiInfo.error # None
        /\ WikiInfo.error[1].msg = "Disambiguation: {entity_name_title_case}. Options: {options[:5]}..."
        /\ WikiInfo.error[1].about = WikiTitle
        /\ Len(WikiInfo.error[1].options) <= 5
        /\ WikiInfo.error[1].options = Take(WikiFirstPage.links, 5)

\* C7 amended: the listed titles are the first at most 5 candidates in
\* source order, the candidates being the outbound links of the page or,
\* when it has none, the one title "<name> (disambiguation)".
C7_UnresolvedListsCandidates ==
    ResolverAbsent =>
        /\ ~WikiInfo.found
        /\ WikiInfo.error # None
        /\ WikiInfo.error[1].msg = "Disambiguation: {entity_name_title_case}. Options: {options[:5]}..."
        /\ WikiInfo.error[1].about = WikiTitle
        /\ Len(WikiInfo.error[1].options) <= 5
        /\ LET candidates ==
                   IF WikiFirstPage.links # << >> THEN WikiFirstPage.links
                   ELSE << WikiTitle \o << 32, 40, 100, 105, 115, 97, 109, 98, 105, 103, 117,
                                           97, 116, 105, 111, 110, 41 >> >>
           IN /\ \A n \in 1..Len(WikiInfo.error[1].options) :
                    WikiInfo.error[1].options[n] = candidates[n]
              /\ Len(WikiInfo.error[1].options) = (IF Len(candidates) < 5 THEN Len(candidates) ELSE 5)

C7_Witness ==
    /\ ResolverAbsent
    /\ Len(WikiFirstPage.links) > 5
    /\ Len(WikiInfo.error[1].options) = 5

\* C8: at most one resolver call and two page lookups in a resolution; a
\* selected page that does not exist, fails to fetch or is a disambiguation
\* page ends the resolution with found = false and an error.
C8_OneLevel ==
    WikiReturned =>
        /\ CountCalls("resolve_disambiguation") <= 1
        /\ CountCalls("page") <= 2
        /\ (ResolverSelected /\ ~(SelectedIsArticle /\ PageDataRead) =>
                /\ ~WikiInfo.found
                /\ WikiInfo.error # None
                /\ WikiCalls[Len(WikiCalls)] = Call("page", ResolverAnswer[1]))

\* C9: for a page that is populated the pageview outcome decides views and
\* error only: the sum, 0 without error on the zero-views signal, absent
\* with the pageview error on a failure; found and the page data stay.
C9_PageviewOutcome ==
    LET Populated(page) ==
            /\ WikiInfo.found
            /\ HasDataOf(page)
            /\ WikiEnv.pv = "ok" =>
                  WikiInfo.views = Some(SumSeq(ViewItems(page.title))) /\ WikiInfo.error = None
            /\ WikiEnv.pv = "zero" => WikiInfo.views = Some(0) /\ WikiInfo.error = None
            /\ WikiEnv.pv = "error" =>
                  /\ WikiInfo.views = None
                  /\ WikiInfo.error # None
                  /\ WikiInfo.error[1].msg = "Pageview fetch error: {pv_err}"
    IN /\ FirstIsArticle /\ PageDataRead => Populated(WikiFirstPage)
       /\ SelectedIsArticle /\ PageDataRead => Populated(SelectedPage)

C9_Witness ==
    /\ FirstIsArticle /\ PageDataRead
    /\ WikiEnv.pv = "zero"
    /\ WikiInfo.views = Some(0)

\* C10: when the page of the title-cased name does not exist the result is
\* found = false, error "Page not found on Wikipedia.", views and length
\* absent, and neither the resolver nor the pageview provider was called.
C10_NotFound ==
    FirstMissing =>
        /\ ~WikiInfo.found
        /\ WikiInfo.error = Some([msg |-> "Page not found on Wikipedia."])
        /\ WikiInfo.views = None
        /\ WikiInfo.length = None
        /\ CountCalls("resolve_disambiguation") = 0
        /\ CountCalls("per_article") = 0

C10_Witness == FirstMissing /\ WikiInfo.title # << >> /\ CountCalls("page") = 1

----------------------------------------------------------------------------
(* Claims on the entity merge (SpecMerge) *)

MergeDone == merge_ret # None
MergeAnswer == merge_args[1].pair.answer
MergeUnique == merge_ret[1].a.unique_entities_to_fetch

\* the candidates in the order answer entities, question entities, key topic
MergeSources ==
    merge_ret[1].a.answer_entities \o merge_ret[1].a.question_entities \o
    (IF merge_ret[1].a.main_topic = None THEN << >> ELSE merge_ret[1].a.main_topic)

\* the first non-empty candidate with the normalized key of an entity
FirstSeen(entity) ==
    LET hits == { n \in 1..Len(MergeSources) :
                    /\ MergeSources[n] # << >>
                    /\ normalize_text(MergeSources[n]) = normalize_text(entity) }
    IN MergeSources[CHOOSE n \in hits : \A m \in hits : n <= m]

\* C3: the merge keeps exactly one surface form per normalized key, and it
\* is the first-seen non-empty spelling in the order answer entities,
\* question entities, key topic.
C3_FirstSeenWins ==
    MergeDone =>
        /\ \A m, n \in 1..Len(MergeUnique) :
              m # n => normalize_text(MergeUnique[m]) # normalize_text(MergeUnique[n])
        /\ \A n \in 1..Len(MergeSources) :
              MergeSources[n] # << >> =>
                 \E m \in 1..Len(MergeUnique) :
                    normalize_text(MergeUnique[m]) = normalize_text(MergeSources[n])
        /\ \A m \in 1..Len(MergeUnique) : MergeUnique[m] = FirstSeen(MergeUnique[m])

\* C4: for a non-empty answer the merged list has exactly one entry that is
\* the same entity as the answer under normalized comparison, and the answer
\* is appended to the extracted answer entities only when none of them is
\* the same entity.
C4_AnswerExactlyOnce ==
    MergeDone /\ MergeAnswer # << >> =>
        /\ Cardinality({ n \in 1..Len(MergeUnique) :
                           normalize_text(MergeUnique[n]) = normalize_text(MergeAnswer) }) = 1
        /\ LET extracted == merge_ret[1].extracted_a
               matched == \E n \in 1..Len(extracted) :
                             normalize_text(extracted[n]) = normalize_text(MergeAnswer)
           IN merge_ret[1].a.answer_entities =
                 (IF matched THEN extracted ELSE Append(extracted, MergeAnswer))

\* an extracted entity spelled differently is the same entity as the answer
C4_Witness ==
    /\ MergeDone /\ MergeAnswer # << >>
    /\ merge_ret[1].extracted_a # << >>
    /\ merge_ret[1].extracted_a[1] # MergeAnswer
    /\ merge_ret[1].a.answer_entities = merge_ret[1].extracted_a
    /\ Len(MergeUnique) >= 2

----------------------------------------------------------------------------
(* Claims on the whole run (Spec) *)

\* every result get_wikipedia_data can return for an entity of a pair
DriverResults ==
    [pair \in DriverPairs |->
        [entity \in Substrings(pair.answer) \cup Substrings(pair.question) |->
            { get_wikipedia_data(entity, pair.question, pair.answer, Client, env).info :
                env \in DriverEnvs }]]

\* the group of a pair holds one result for each merged entity, in order
GroupComplete(g) ==
    /\ Len(g.data) = Len(g.entities)
    /\ \A n \in 1..Len(g.entities) :
          g.data[n] \in DriverResults[structured_pairs[g.pair]][g.entities[n]]

C14_NotFoundHasErrorOnly ==
    WikiReturned /\ ~WikiInfo.found =>
        /\ WikiInfo.length = None
        /\ WikiInfo.views = None
        /\ WikiInfo.url = None
        /\ WikiInfo.error # None
        /\ WikiInfo.error[1].msg # ""

\* the lookup of the selected page raised
C14_Witness ==
    /\ ResolverSelected /\ WikiEnv.fail = "resolved_exists"
    /\ ~WikiInfo.found
    /\ WikiInfo.error[1].msg = "Error fetching resolved page '{selected_title}': {resolve_err}"

----------------------------------------------------------------------------
(* Claims on resolve_disambiguation (SpecDisamb) *)

DisambDone == llm_ret # None
DisambRet == llm_ret[1].ret
\* the answer after trimming and stripping surrounding quotes
DisambAnswer == StripQuotes(Strip(llm_ret[1].llm.text))
\* the answer is a member of the full candidate list
DisambMember ==
    \E n \in 1..Len(llm_args[1].options) : llm_args[1].options[n] = DisambAnswer

\* C13: the result is absent or the trimmed, unquoted answer, which then is a
\* member of the full candidate list; a member is accepted also beyond the 15
\* candidates shown; any other text, NONE, an empty answer and a transport
\* error give absent.
C13_ValidatedAgainstFullList ==
    DisambDone =>
        /\ DisambRet # None => DisambRet = Some(DisambAnswer) /\ DisambMember
        /\ llm_ret[1].llm.raises => DisambRet = None
        /\ ~llm_ret[1].llm.raises /\ llm_args[1].client # None =>
              (DisambRet # None <=>
                  DisambMember /\ DisambAnswer # NONE /\ DisambAnswer # << >>)

\* a quoted answer naming a candidate the prompt did not show is returned
C13_Witness ==
    /\ DisambDone
    /\ DisambRet # None
    /\ llm_ret[1].llm.text # DisambRet[1]
    /\ ~InSeq(DisambRet[1], Presented(llm_args[1].options))

----------------------------------------------------------------------------
(* Claims on structure_qa_pairs (SpecStructure) *)

StructDone == llm_ret # None
StructRet == llm_ret[1].r.ret
StructCalled == llm_ret[1].r.called
StructResponse == llm_ret[1].llm
\* the raw text is empty or whitespace only
StructBlankInput == \A n \in 1..Len(llm_args[1].text_input) : IsSpace(llm_args[1].text_input[n])
\* the objects written in a response (its "{" code points)
ObjectCount(text) == Cardinality({ n \in 1..Len(text) : text[n] = 123 })

\* C11: the result is tri-state.  Blank input gives the empty sequence
\* without an LLM call; a response that is a JSON array of objects with both
\* keys gives that array, possibly empty; prose without an array,
\* undecodable JSON, a missing key and a transport exception give the
\* failure signal, never the empty sequence.
C11_TriState ==
    StructDone =>
        /\ StructBlankInput => StructRet = Some(<< >>) /\ ~StructCalled
        /\ ~StructBlankInput =>
              /\ StructCalled
              /\ StructResponse.raises \/ StructResponse.text \in MalformedResponses =>
                    StructRet = None /\ StructRet # Some(<< >>)
              /\ ~StructResponse.raises /\ StructResponse.text \in ArrayResponses =>
                    /\ StructRet # None
                    /\ Len(StructRet[1]) = ObjectCount(StructResponse.text)
                    /\ \A n \in 1..Len(StructRet[1]) :
                          /\ StructRet[1][n].t = "dict"
                          /\ \E m \in 1..Len(StructRet[1][n].v) :
                                StructRet[1][n].v[m].key = QuestionKey
                          /\ \E m \in 1..Len(StructRet[1][n].v) :
                                StructRet[1][n].v[m].key = AnswerKey

\* the LLM was asked and answered with the empty array: zero pairs, no failure
C11_Witness ==
    /\ StructDone /\ ~StructBlankInput
    /\ StructCalled
    /\ StructResponse.text = << 91, 93 >>
    /\ StructRet = Some(<< >>)

\* C12: no returned pair has a question or an answer that is empty after
\* trimming.
C12_NoBlankPairReturned ==
    StructDone /\ StructRet # None =>
        \A n \in 1..Len(StructRet[1]) : \A key \in {QuestionKey, AnswerKey} :
            LET value == DictGet(StructRet[1][n], key)
            IN ~(value.t = "str" /\ Strip(value.v) = << >>)

====
